---- MODULE Spec2Model ----
(***************************************************************************)
(* Model of src/src/Train.cpp: the chunked, optionally parallel loading of *)
(* training files into a DataSet (DataChunk, readIntoDataChunks, the       *)
(* training branch of main) and the evaluation loop over the test files.   *)
(*                                                                         *)
(* Two specifications share the module: Spec is the training branch of     *)
(* main (lines 228-282), EvalSpec is the testing branch (lines 284-355).   *)
(* CounterMonitor, the thread manager, DataSet, Gbm, LeastSquareFun and    *)
(* predict/predict_vec live in headers Train.cpp includes (Concurrency.h,  *)
(* DataSet.h, Gbm.h, GbmFun.h, Tree.h); they are modelled from their       *)
(* documented contracts.                                                   *)
(***************************************************************************)
EXTENDS Integers, Sequences, FiniteSets, TLC

\* ------------------------------------------------------------------ bounds
MaxLines == 3        \* lines read over all training files of one run
MaxChunkSize == 2    \* chunkSize argument of readIntoDataChunks ranges over 1..MaxChunkSize
MaxThreads == 2      \* FLAGS_num_threads ranges over 0..MaxThreads
MaxFiles == 2        \* entries of FLAGS_training_files
MaxTestLines == 3    \* lines read over all test files of one run
MaxTestFiles == 2    \* entries of FLAGS_testing_files
MaxTrees == 2        \* trees of the model

\* Numbers (targets, scores, leaf values) are integers in units of 1e-5, which
\* makes the tolerance of the comparison of logged and computed score 1.
Tol == 1

\* Lines a training file may hold: the empty line, two well-formed rows and
\* a malformed one.
Lines == {"", "a", "b", "x"}

\* Values of FLAGS_num_examples_for_training (-1: use all available).
ExampleLimits == {-1, 1}

VARIABLES
  num_threads,   \* FLAGS_num_threads
  chunkSize,     \* chunkSize argument of readIntoDataChunks
  eval_only,     \* FLAGS_eval_only
  pc,            \* position of the main thread
  fileIdx,       \* index of the training file being loaded (0 before the first)
  streams,       \* history: the lines getline has delivered, per training file
  curChunk,      \* *curChunkPtr
  chunks,        \* *chunks / dataChunks of the file being loaded
  addLineRet,    \* result of the last addLine call (FALSE before the first)
  monitor,       \* the CounterMonitor of the current readIntoDataChunks call
  queue,         \* tasks handed to the thread manager, not yet picked up
  task,          \* per chunk: progress of parseLines/run on it
  seqIdx,        \* chunk index of the sequential parse loop / of the submit loop
  mergeIdx,      \* chunk index of the addToDataSet loop of main
  mergeRet,      \* history: return value of every addToDataSet call of this file
  ds,            \* the DataSet ds of main
  addLog,        \* history: every addVector call, in call order
  trained,       \* number of Gbm::getModel calls
  find_optimal_num_trees,  \* FLAGS_find_optimal_num_trees
  model,         \* the trees of the model, in order
  epc,           \* position of the main thread in the testing branch
  tfileIdx,      \* index of the test file being read (0 before the first)
  tstreams,      \* history: the lines getline has delivered, per test file
  rowInit,       \* target, score and fvec have been written by an accepted getRow
  target,        \* double target of main
  score,         \* double score of main
  fvec,          \* the feature array fvec of main
  scores,        \* vector<double> scores of the loop over a test file
  agreeCount,    \* int agreeCount
  sumy,          \* double sumy
  sumy2,         \* double sumy2
  fun,           \* LeastSquareFun fun, the accumulator of the whole model
  funs,          \* vector<LeastSquareFun> funs, one accumulator per prefix
  evalLog,       \* history: per test line, what getRow said and the values used
  report         \* what the testing branch prints at its end

ingestVars == <<num_threads, chunkSize, eval_only, pc, fileIdx, streams, curChunk,
                chunks, addLineRet, monitor, queue, task, seqIdx, mergeIdx,
                mergeRet, ds, addLog, trained>>

evalVars == <<find_optimal_num_trees, model, epc, tfileIdx, tstreams, rowInit, target,
              score, fvec, scores, agreeCount, sumy, sumy2, fun, funs, evalLog, report>>

vars == <<ingestVars, evalVars>>

\* ------------------------------------------------------------ DataSet (external)

\* DataSet::getRow on a line: reject, or the target, the feature vector and
\* (for test rows) the logged score of the row.
getRow(line) ==
  CASE line = "a" -> [ok |-> TRUE, target |-> 1, fvec |-> <<10>>, score |-> 3]
    [] line = "b" -> [ok |-> TRUE, target |-> 2, fvec |-> <<20>>, score |-> 1]
    [] OTHER      -> [ok |-> FALSE, target |-> 0, fvec |-> <<0>>, score |-> 0]

\* DataSet ds(cfg, FLAGS_num_examples_for_bucketing, FLAGS_num_examples_for_training)
\* calls counts the addVector calls made, callsAtClose what calls was at the
\* last close.
NewDataSet(limit) ==
  [rows |-> <<>>, limit |-> limit, closed |-> FALSE, closes |-> 0, calls |-> 0,
   callsAtClose |-> 0]

\* DataSet::addVector: refuses once the example limit is exhausted.
addVector(d, fv, y) ==
  IF d.limit # -1 /\ Len(d.rows) >= d.limit
    THEN [ok |-> FALSE, ds |-> [d EXCEPT !.calls = @ + 1]]
    ELSE [ok |-> TRUE,
          ds |-> [d EXCEPT !.rows = Append(@, [fvec |-> fv, target |-> y]),
                           !.calls = @ + 1]]

\* DataSet::close
close(d) == [d EXCEPT !.closed = TRUE, !.closes = @ + 1, !.callsAtClose = d.calls]

\* ------------------------------------------------------------ CounterMonitor (external)

\* CounterMonitor monitor(0)
NewMonitor == [count |-> 0, inits |-> 0, decs |-> 0, waits |-> 0]

MonitorInit(m, n) == [m EXCEPT !.count = n, !.inits = @ + 1]

MonitorDecrement(m) == [m EXCEPT !.count = @ - 1, !.decs = @ + 1]

\* wait() returns only when the count is zero.
MonitorWaitEnabled(m) == m.count <= 0

\* ------------------------------------------------------------ DataChunk

\* A chunk constructed without the monitor: monitorPtr keeps its default, NULL.
NewChunkNoMonitor(monitorPtr) ==
  [lines |-> <<>>, featureVectors |-> <<>>, targets |-> <<>>, monitorPtr |-> "null"]

\* DataChunk(cfg, dataSet, monitorPtr)
NewChunk(monitorPtr) ==
  [lines |-> <<>>, featureVectors |-> <<>>, targets |-> <<>>, monitorPtr |-> monitorPtr]

\* addLine without the test for the empty string.
addLineNoCheck(ch, s) == [ret |-> TRUE, chunk |-> [ch EXCEPT !.lines = Append(@, s)]]

\* DataChunk::addLine: the chunk afterwards and the value returned.
addLine(ch, s) ==
  IF s = ""
    THEN [ret |-> FALSE, chunk |-> ch]
    ELSE [ret |-> TRUE, chunk |-> [ch EXCEPT !.lines = Append(@, s)]]

getLineBufferSize(ch) == Len(ch.lines)

getSize(ch) == Len(ch.featureVectors)

\* The first half with the target pushed before the result of getRow is looked at.
parseTargetUnchecked(ch, i) ==
  [ch EXCEPT !.targets = Append(@, getRow(ch.lines[i]).target)]

\* First half of one iteration of the loop of parseLines on line i: getRow and,
\* if the row is accepted, targets_.push_back(target).
parseTarget(ch, i) ==
  LET r == getRow(ch.lines[i])
  IN IF r.ok THEN [ch EXCEPT !.targets = Append(@, r.target)] ELSE ch

\* The second half putting the feature vector at the front of featureVectors_.
parseFvecFront(ch, i) ==
  [ch EXCEPT !.featureVectors = <<getRow(ch.lines[i]).fvec>> \o @]

\* Second half, taken only for an accepted row: featureVectors_.emplace_back(...).
parseFvec(ch, i) ==
  [ch EXCEPT !.featureVectors = Append(@, getRow(ch.lines[i]).fvec)]

\* Progress of one parseLines call on a chunk:
\*   st   "new" | "queued" | "running" (in parseLines on a pool thread) |
\*        "parsed" (parseLines returned, run() has not yet decremented) |
\*        "inline" (in parseLines on the main thread) | "done"
\*   i    index of the line the loop is at
\*   half "row" before getRow of line i, "fvec" between the two push_backs
\*   runs number of parseLines calls started on the chunk
NewTask == [st |-> "new", i |-> 1, half |-> "row", runs |-> 0]

\* One step of parseLines on chunk ch whose progress is t (a call under way):
\* the first or the second half of the iteration on line t.i. A chunk handed
\* to parseLines holds at least one line.
ParseStepChunk(ch, t) ==
  IF t.half = "row" THEN parseTarget(ch, t.i) ELSE parseFvec(ch, t.i)

\* The progress after that step; the loop ends behind the last line, which
\* leaves the chunk in endState.
ParseStepTask(ch, t, endState) ==
  IF t.half = "row" /\ getRow(ch.lines[t.i]).ok
    THEN [t EXCEPT !.half = "fvec"]
    ELSE [t EXCEPT !.i = @ + 1, !.half = "row",
                   !.st = IF t.i + 1 > Len(ch.lines) THEN endState ELSE @]

\* addToDataSet that goes on to the next row after a refusal instead of returning.
RECURSIVE addToDataSetFromNoStop(_, _, _)
addToDataSetFromNoStop(ch, st, i) ==
  IF i > Len(ch.featureVectors)
    THEN [ret |-> Len(ch.featureVectors), ds |-> st.ds, calls |-> st.calls]
    ELSE LET r == addVector(st.ds, ch.featureVectors[i], ch.targets[i])
         IN addToDataSetFromNoStop(
              ch, [ds |-> r.ds, calls |-> Append(st.calls, [row |-> i, ok |-> r.ok])], i + 1)

\* DataChunk::addToDataSet from index i on (1-based): st carries the DataSet and
\* the indices at which addVector has been called so far.
RECURSIVE addToDataSetFrom(_, _, _)
addToDataSetFrom(ch, st, i) ==
  IF i > Len(ch.featureVectors)
    THEN [ret |-> Len(ch.featureVectors), ds |-> st.ds, calls |-> st.calls]
    ELSE LET r == addVector(st.ds, ch.featureVectors[i], ch.targets[i])
             c == Append(st.calls, [row |-> i, ok |-> r.ok])
         IN IF ~r.ok
              THEN [ret |-> i - 1, ds |-> r.ds, calls |-> c]
              ELSE addToDataSetFrom(ch, [ds |-> r.ds, calls |-> c], i + 1)

\* CHECK(featureVectors_.size() == targets_.size()) at the top of addToDataSet.
addToDataSetCheck(ch) == Len(ch.featureVectors) = Len(ch.targets)

addToDataSet(ch, d) == addToDataSetFrom(ch, [ds |-> d, calls |-> <<>>], 1)

\* ------------------------------------------------------------ model and loss (external)

\* Lines a test file may hold: two well-formed rows and a malformed one.
TestLines == {"a", "b", "x"}

\* A tree is a stump on feature 0.
Trees == {[thr |-> 15, lo |-> 1, hi |-> 2], [thr |-> 15, lo |-> 2, hi |-> -1]}

RECURSIVE SeqsUpTo(_, _)
SeqsUpTo(S, n) ==
  IF n = 0 THEN {<<>>}
  ELSE LET shorter == SeqsUpTo(S, n - 1)
       IN shorter \cup {Append(q, x) : q \in {r \in shorter : Len(r) = n - 1}, x \in S}

Models == SeqsUpTo(Trees, MaxTrees)

\* TreeNode::eval
eval(tree, fv) == IF fv[1] < tree.thr THEN tree.lo ELSE tree.hi

\* predict(model, fvec): the sum of the trees' values.
RECURSIVE predict(_, _)
predict(m, fv) == IF m = <<>> THEN 0 ELSE eval(Head(m), fv) + predict(Tail(m), fv)

\* predict_vec(model, fvec, &scores): walks the trees once, appends the running
\* sum after each tree to scores and returns the last sum.
RECURSIVE predict_vec_from(_, _, _, _)
predict_vec_from(m, fv, acc, sc) ==
  IF m = <<>> THEN [f |-> acc, scores |-> sc]
  ELSE LET a == acc + eval(Head(m), fv)
       IN predict_vec_from(Tail(m), fv, a, Append(sc, a))

predict_vec(m, fv, sc) == predict_vec_from(m, fv, 0, sc)

\* LeastSquareFun
NewFun == [numExamples |-> 0, sumy |-> 0, sumy2 |-> 0, loss |-> 0]

accumulateExampleLoss(fn, y, f) ==
  [numExamples |-> fn.numExamples + 1, sumy |-> fn.sumy + y,
   sumy2 |-> fn.sumy2 + y * y, loss |-> fn.loss + (y - f) * (y - f)]

getLoss(fn) == fn.loss

getNumExamples(fn) == fn.numExamples

\* What target, fvec and score may hold after a getRow that rejected the line
\* and so wrote none or only some of them: values that were never written.
GarbageRows == {[target |-> 5, fvec |-> <<20>>, score |-> 0],
                [target |-> 0, fvec |-> <<10>>, score |-> 2]}

Abs(x) == IF x < 0 THEN -x ELSE x

\* ------------------------------------------------------------ helpers

Range(s) == {s[i] : i \in 1..Len(s)}

RECURSIVE SumLen(_)
SumLen(ss) == IF ss = <<>> THEN 0 ELSE Len(Head(ss)) + SumLen(Tail(ss))

Running == {c \in 1..Len(task) : task[c].st \in {"running", "parsed"}}

InFlight == {c \in 1..Len(task) : task[c].st \in {"queued", "running", "parsed"}}

\* The testing branch before it is entered, for a run that is not followed there.
EvalIdle ==
  /\ find_optimal_num_trees = FALSE
  /\ model = <<>>
  /\ epc = "idle"
  /\ tfileIdx = 0
  /\ tstreams = <<>>
  /\ rowInit = FALSE
  /\ target = 0
  /\ score = 0
  /\ fvec = <<0>>
  /\ scores = <<>>
  /\ agreeCount = 0
  /\ sumy = 0
  /\ sumy2 = 0
  /\ fun = NewFun
  /\ funs = <<>>
  /\ evalLog = <<>>
  /\ report = <<>>

\* ------------------------------------------------------------ main, training branch

Init ==
  /\ num_threads \in 0..MaxThreads
  /\ chunkSize \in 1..MaxChunkSize
  /\ eval_only \in BOOLEAN
  /\ pc = "start"
  /\ fileIdx = 0
  /\ streams = <<>>
  /\ curChunk = NewChunk("null")
  /\ chunks = <<>>
  /\ addLineRet = FALSE
  /\ monitor = NewMonitor
  /\ queue = <<>>
  /\ task = <<>>
  /\ seqIdx = 0
  /\ mergeIdx = 0
  /\ mergeRet = <<>>
  /\ \E limit \in ExampleLimits : ds = NewDataSet(limit)
  /\ addLog = <<>>
  /\ trained = 0
  /\ EvalIdle

\* if (!FLAGS_eval_only) ... else load the model
Start ==
  /\ pc = "start"
  /\ pc' = IF eval_only THEN "loadModel" ELSE "nextFile"
  /\ UNCHANGED <<num_threads, chunkSize, eval_only, fileIdx, streams, curChunk, chunks,
                 addLineRet, monitor, queue, task, seqIdx, mergeIdx, mergeRet, ds,
                 addLog, trained>>
  /\ UNCHANGED evalVars

\* for (const auto& s : sv): open the next training file and enter
\* readIntoDataChunks, which constructs the monitor and the first chunk.
OpenFile ==
  /\ pc = "nextFile"
  /\ fileIdx < MaxFiles
  /\ fileIdx' = fileIdx + 1
  /\ streams' = Append(streams, <<>>)
  /\ monitor' = NewMonitor
  /\ curChunk' = NewChunk("monitor")
  /\ chunks' = <<>>
  /\ task' = <<>>
  /\ queue' = <<>>
  /\ seqIdx' = 0
  /\ mergeIdx' = 0
  /\ mergeRet' = <<>>
  /\ pc' = "read"
  /\ UNCHANGED <<num_threads, chunkSize, eval_only, addLineRet, ds, addLog, trained>>
  /\ UNCHANGED evalVars

\* The loop body sealing the chunk with > in place of >=.
ReadLineStepOffByOne(line) ==
  LET r == addLine(curChunk, line)
      full == getLineBufferSize(r.chunk) > chunkSize
  IN /\ streams' = [streams EXCEPT ![fileIdx] = Append(@, line)]
     /\ addLineRet' = r.ret
     /\ chunks' = IF full THEN Append(chunks, r.chunk) ELSE chunks
     /\ task' = IF full THEN Append(task, NewTask) ELSE task
     /\ curChunk' = IF full THEN NewChunk("monitor") ELSE r.chunk

\* One iteration of while (getline(in, line)): addLine, then seal the chunk
\* if it is full.
ReadLineStep(line) ==
  LET r == addLine(curChunk, line)
      full == getLineBufferSize(r.chunk) >= chunkSize
  IN /\ streams' = [streams EXCEPT ![fileIdx] = Append(@, line)]
     /\ addLineRet' = r.ret
     /\ chunks' = IF full THEN Append(chunks, r.chunk) ELSE chunks
     /\ task' = IF full THEN Append(task, NewTask) ELSE task
     /\ curChunk' = IF full THEN NewChunk("monitor") ELSE r.chunk

ReadLine ==
  /\ pc = "read"
  /\ SumLen(streams) < MaxLines
  /\ \E line \in Lines : ReadLineStep(line)
  /\ UNCHANGED <<num_threads, chunkSize, eval_only, pc, fileIdx, monitor, queue,
                 seqIdx, mergeIdx, mergeRet, ds, addLog, trained>>
  /\ UNCHANGED evalVars

\* The end of the stream without lines 156-158: the last, partly filled chunk
\* is not sealed.
EndOfStreamNoSeal ==
  LET parallel == num_threads > 0 /\ chunks # <<>>
  IN /\ chunks' = chunks
     /\ task' = task
     /\ monitor' = IF parallel THEN MonitorInit(monitor, Len(chunks)) ELSE monitor
     /\ seqIdx' = 1
     /\ pc' = IF parallel THEN "submit" ELSE "seqParse"

\* The end of the stream with the monitor initialised one short.
EndOfStreamInitShort ==
  LET last == getLineBufferSize(curChunk) > 0
      cs == IF last THEN Append(chunks, curChunk) ELSE chunks
      parallel == num_threads > 0 /\ cs # <<>>
  IN /\ chunks' = cs
     /\ task' = IF last THEN Append(task, NewTask) ELSE task
     /\ monitor' = IF parallel THEN MonitorInit(monitor, Len(cs) - 1) ELSE monitor
     /\ seqIdx' = 1
     /\ pc' = IF parallel THEN "submit" ELSE "seqParse"

\* getline fails: seal a non-empty last chunk, then choose the parse path;
\* on the parallel path monitor.init(chunks->size()).
EndOfStreamStep ==
  LET last == getLineBufferSize(curChunk) > 0
      cs == IF last THEN Append(chunks, curChunk) ELSE chunks
      parallel == num_threads > 0 /\ cs # <<>>
  IN /\ chunks' = cs
     /\ task' = IF last THEN Append(task, NewTask) ELSE task
     /\ monitor' = IF parallel THEN MonitorInit(monitor, Len(cs)) ELSE monitor
     /\ seqIdx' = 1
     /\ pc' = IF parallel THEN "submit" ELSE "seqParse"

EndOfStream ==
  /\ pc = "read"
  /\ EndOfStreamStep
  /\ UNCHANGED <<num_threads, chunkSize, eval_only, fileIdx, streams, curChunk,
                 addLineRet, queue, mergeIdx, mergeRet, ds, addLog, trained>>
  /\ UNCHANGED evalVars

\* The submit loop adding every chunk to the thread manager twice.
SubmitTwice ==
  /\ pc = "submit"
  /\ seqIdx <= Len(chunks)
  /\ queue' = queue \o <<seqIdx, seqIdx>>
  /\ task' = [task EXCEPT ![seqIdx].st = "queued"]
  /\ seqIdx' = seqIdx + 1
  /\ UNCHANGED <<num_threads, chunkSize, eval_only, pc, fileIdx, streams, curChunk,
                 chunks, addLineRet, monitor, mergeIdx, mergeRet, ds, addLog, trained>>
  /\ UNCHANGED evalVars

\* for (auto chunkPtr : *chunks) Concurrency::threadManager->add(chunkPtr);
Submit ==
  /\ pc = "submit"
  /\ seqIdx <= Len(chunks)
  /\ queue' = Append(queue, seqIdx)
  /\ task' = [task EXCEPT ![seqIdx].st = "queued"]
  /\ seqIdx' = seqIdx + 1
  /\ UNCHANGED <<num_threads, chunkSize, eval_only, pc, fileIdx, streams, curChunk,
                 chunks, addLineRet, monitor, mergeIdx, mergeRet, ds, addLog, trained>>
  /\ UNCHANGED evalVars

\* The submit loop is over: the main thread calls monitor.wait().
EnterWait ==
  /\ pc = "submit"
  /\ seqIdx > Len(chunks)
  /\ pc' = "wait"
  /\ monitor' = [monitor EXCEPT !.waits = @ + 1]
  /\ UNCHANGED <<num_threads, chunkSize, eval_only, fileIdx, streams, curChunk, chunks,
                 addLineRet, queue, task, seqIdx, mergeIdx, mergeRet, ds, addLog, trained>>
  /\ UNCHANGED evalVars

\* readIntoDataChunks without the monitor.wait() of line 166.
WaitReturnNoBlock ==
  /\ pc = "wait"
  /\ pc' = "merge"
  /\ mergeIdx' = 1
  /\ UNCHANGED <<num_threads, chunkSize, eval_only, fileIdx, streams, curChunk, chunks,
                 addLineRet, monitor, queue, task, seqIdx, mergeRet, ds, addLog, trained>>
  /\ UNCHANGED evalVars

\* monitor.wait() returns, and with it readIntoDataChunks.
WaitReturn ==
  /\ pc = "wait"
  /\ MonitorWaitEnabled(monitor)
  /\ pc' = "merge"
  /\ mergeIdx' = 1
  /\ UNCHANGED <<num_threads, chunkSize, eval_only, fileIdx, streams, curChunk, chunks,
                 addLineRet, monitor, queue, task, seqIdx, mergeRet, ds, addLog, trained>>
  /\ UNCHANGED evalVars

\* The merge loop left at the first chunk that was not added whole.
MergeStepStopsWhenShort(c) ==
  IF addToDataSetCheck(chunks[c])
    THEN LET r == addToDataSet(chunks[c], ds)
         IN /\ ds' = r.ds
            /\ mergeRet' = Append(mergeRet, r.ret)
            /\ addLog' = addLog \o
                 [k \in 1..Len(r.calls) |->
                    [file |-> fileIdx, chunk |-> c, row |-> r.calls[k].row,
                     ok |-> r.calls[k].ok, busy |-> InFlight # {}]]
            /\ mergeIdx' = IF r.ret < getSize(chunks[c]) THEN Len(chunks) + 1 ELSE c + 1
            /\ pc' = pc
    ELSE /\ pc' = "abort"
         /\ UNCHANGED <<ds, mergeRet, addLog, mergeIdx>>

\* for (const auto chunkPtr : dataChunks) chunkPtr->addToDataSet(&ds);
\* the return value is dropped by main and kept here as history.
MergeStep(c) ==
  IF addToDataSetCheck(chunks[c])
    THEN LET r == addToDataSet(chunks[c], ds)
         IN /\ ds' = r.ds
            /\ mergeRet' = Append(mergeRet, r.ret)
            /\ addLog' = addLog \o
                 [k \in 1..Len(r.calls) |->
                    [file |-> fileIdx, chunk |-> c, row |-> r.calls[k].row,
                     ok |-> r.calls[k].ok, busy |-> InFlight # {}]]
            /\ mergeIdx' = c + 1
            /\ pc' = pc
    ELSE /\ pc' = "abort"
         /\ UNCHANGED <<ds, mergeRet, addLog, mergeIdx>>

\* An idle pool thread takes the oldest queued task and calls run(), which
\* enters parseLines. The thread manager runs at most num_threads tasks at a
\* time and starts them in the order they were added.
WorkerStart ==
  /\ queue # <<>>
  /\ Cardinality(Running) < num_threads
  /\ task' = [task EXCEPT ![Head(queue)].st = "running", ![Head(queue)].runs = @ + 1]
  /\ queue' = Tail(queue)
  /\ UNCHANGED <<num_threads, chunkSize, eval_only, pc, fileIdx, streams, curChunk,
                 chunks, addLineRet, monitor, seqIdx, mergeIdx, mergeRet, ds, addLog,
                 trained>>
  /\ UNCHANGED evalVars

\* A pool thread advances parseLines on its chunk by one step.
WorkerParse(c) ==
  /\ task[c].st = "running"
  /\ chunks' = [chunks EXCEPT ![c] = ParseStepChunk(chunks[c], task[c])]
  /\ task' = [task EXCEPT ![c] = ParseStepTask(chunks[c], task[c], "parsed")]
  /\ UNCHANGED <<num_threads, chunkSize, eval_only, pc, fileIdx, streams, curChunk,
                 addLineRet, monitor, queue, seqIdx, mergeIdx, mergeRet, ds, addLog,
                 trained>>
  /\ UNCHANGED evalVars

\* The tail of run() decrementing twice.
RunDecrementTwice(ch, m) ==
  IF ch.monitorPtr # "null" THEN MonitorDecrement(MonitorDecrement(m)) ELSE m

\* The tail of DataChunk::run: if (monitorPtr_ != NULL) monitorPtr_->decrement().
RunDecrement(ch, m) == IF ch.monitorPtr # "null" THEN MonitorDecrement(m) ELSE m

\* run() that also adds the rows of its chunk to the data set.
WorkerFinishMerges(c) ==
  /\ task[c].st = "parsed"
  /\ monitor' = RunDecrement(chunks[c], monitor)
  /\ task' = [task EXCEPT ![c].st = "done"]
  /\ ds' = addToDataSet(chunks[c], ds).ds
  /\ UNCHANGED <<num_threads, chunkSize, eval_only, pc, fileIdx, streams, curChunk,
                 chunks, addLineRet, queue, seqIdx, mergeIdx, mergeRet, addLog,
                 trained>>
  /\ UNCHANGED evalVars

WorkerFinish(c) ==
  /\ task[c].st = "parsed"
  /\ monitor' = RunDecrement(chunks[c], monitor)
  /\ task' = [task EXCEPT ![c].st = "done"]
  /\ UNCHANGED <<num_threads, chunkSize, eval_only, pc, fileIdx, streams, curChunk,
                 chunks, addLineRet, queue, seqIdx, mergeIdx, mergeRet, ds, addLog,
                 trained>>
  /\ UNCHANGED evalVars

\* The sequential loop calling run() on each chunk instead of parseLines().
SeqParseRuns ==
  /\ pc = "seqParse"
  /\ seqIdx <= Len(chunks)
  /\ LET t == IF task[seqIdx].st = "new"
                THEN [task[seqIdx] EXCEPT !.st = "inline", !.runs = @ + 1]
                ELSE task[seqIdx]
         t2 == ParseStepTask(chunks[seqIdx], t, "done")
     IN /\ chunks' = [chunks EXCEPT ![seqIdx] = ParseStepChunk(chunks[seqIdx], t)]
        /\ task' = [task EXCEPT ![seqIdx] = t2]
        /\ seqIdx' = IF t2.st = "done" THEN seqIdx + 1 ELSE seqIdx
        /\ monitor' = IF t2.st = "done" THEN RunDecrement(chunks[seqIdx], monitor)
                      ELSE monitor
  /\ UNCHANGED <<num_threads, chunkSize, eval_only, pc, fileIdx, streams, curChunk,
                 addLineRet, queue, mergeIdx, mergeRet, ds, addLog, trained>>
  /\ UNCHANGED evalVars

\* Sequential path: for (auto chunkPtr : *chunks) chunkPtr->parseLines(), on the
\* main thread, one step of the current chunk's loop at a time.
SeqParse ==
  /\ pc = "seqParse"
  /\ seqIdx <= Len(chunks)
  /\ LET t == IF task[seqIdx].st = "new"
                THEN [task[seqIdx] EXCEPT !.st = "inline", !.runs = @ + 1]
                ELSE task[seqIdx]
         t2 == ParseStepTask(chunks[seqIdx], t, "done")
     IN /\ chunks' = [chunks EXCEPT ![seqIdx] = ParseStepChunk(chunks[seqIdx], t)]
        /\ task' = [task EXCEPT ![seqIdx] = t2]
        /\ seqIdx' = IF t2.st = "done" THEN seqIdx + 1 ELSE seqIdx
  /\ UNCHANGED <<num_threads, chunkSize, eval_only, pc, fileIdx, streams, curChunk,
                 addLineRet, monitor, queue, mergeIdx, mergeRet, ds, addLog, trained>>
  /\ UNCHANGED evalVars

\* The sequential loop is over: readIntoDataChunks returns.
SeqReturn ==
  /\ pc = "seqParse"
  /\ seqIdx > Len(chunks)
  /\ pc' = "merge"
  /\ mergeIdx' = 1
  /\ UNCHANGED <<num_threads, chunkSize, eval_only, fileIdx, streams, curChunk, chunks,
                 addLineRet, monitor, queue, task, seqIdx, mergeRet, ds, addLog, trained>>
  /\ UNCHANGED evalVars

Merge ==
  /\ pc = "merge"
  /\ mergeIdx <= Len(chunks)
  /\ MergeStep(mergeIdx)
  /\ UNCHANGED <<num_threads, chunkSize, eval_only, fileIdx, streams, curChunk, chunks,
                 addLineRet, monitor, queue, task, seqIdx, trained>>
  /\ UNCHANGED evalVars

\* The end of the loop body with ds.close() inside the loop, once per file.
FileDoneCloses ==
  /\ pc = "merge"
  /\ mergeIdx > Len(chunks)
  /\ pc' = "nextFile"
  /\ ds' = close(ds)
  /\ UNCHANGED <<num_threads, chunkSize, eval_only, fileIdx, streams, curChunk, chunks,
                 addLineRet, monitor, queue, task, seqIdx, mergeIdx, mergeRet,
                 addLog, trained>>
  /\ UNCHANGED evalVars

\* End of the body of the loop over the training files.
FileDone ==
  /\ pc = "merge"
  /\ mergeIdx > Len(chunks)
  /\ pc' = "nextFile"
  /\ UNCHANGED <<num_threads, chunkSize, eval_only, fileIdx, streams, curChunk, chunks,
                 addLineRet, monitor, queue, task, seqIdx, mergeIdx, mergeRet, ds,
                 addLog, trained>>
  /\ UNCHANGED evalVars

\* No training file is left: ds.close().
Close ==
  /\ pc = "nextFile"
  /\ ds' = close(ds)
  /\ pc' = "train"
  /\ UNCHANGED <<num_threads, chunkSize, eval_only, fileIdx, streams, curChunk, chunks,
                 addLineRet, monitor, queue, task, seqIdx, mergeIdx, mergeRet, addLog,
                 trained>>
  /\ UNCHANGED evalVars

\* Gbm engine(fun, ds, cfg); engine.getModel(&model, fimps); dump the model.
Train ==
  /\ pc = "train"
  /\ trained' = trained + 1
  /\ pc' = "done"
  /\ UNCHANGED <<num_threads, chunkSize, eval_only, fileIdx, streams, curChunk, chunks,
                 addLineRet, monitor, queue, task, seqIdx, mergeIdx, mergeRet, ds,
                 addLog>>
  /\ UNCHANGED evalVars

\* eval_only: the model is read from FLAGS_model_file instead.
LoadModel ==
  /\ pc = "loadModel"
  /\ pc' = "done"
  /\ UNCHANGED <<num_threads, chunkSize, eval_only, fileIdx, streams, curChunk, chunks,
                 addLineRet, monitor, queue, task, seqIdx, mergeIdx, mergeRet, ds,
                 addLog, trained>>
  /\ UNCHANGED evalVars

Next ==
  \/ Start
  \/ OpenFile
  \/ ReadLine
  \/ EndOfStream
  \/ Submit
  \/ EnterWait
  \/ WaitReturn
  \/ WorkerStart
  \/ \E c \in 1..Len(task) : WorkerParse(c)
  \/ \E c \in 1..Len(task) : WorkerFinish(c)
  \/ SeqParse
  \/ SeqReturn
  \/ Merge
  \/ FileDone
  \/ Close
  \/ Train
  \/ LoadModel

Spec == Init /\ [][Next]_vars

\* The training branch under fair scheduling: the main thread goes on with
\* readIntoDataChunks whenever it is not blocked in wait(), and the thread
\* manager goes on starting queued tasks on idle pool threads and running the
\* started ones to their end.
FairSpec ==
  /\ Spec
  /\ WF_vars(Submit \/ EnterWait \/ WaitReturn)
  /\ WF_vars(WorkerStart)
  /\ WF_vars(\E c \in 1..Len(task) : WorkerParse(c))
  /\ WF_vars(\E c \in 1..Len(task) : WorkerFinish(c))

\* ------------------------------------------------------------ main, testing branch

\* The training branch as it is left behind, for a run followed from line 284 on.
IngestIdle ==
  /\ num_threads = 0
  /\ chunkSize = 1
  /\ eval_only = TRUE
  /\ pc = "done"
  /\ fileIdx = 0
  /\ streams = <<>>
  /\ curChunk = NewChunk("null")
  /\ chunks = <<>>
  /\ addLineRet = FALSE
  /\ monitor = NewMonitor
  /\ queue = <<>>
  /\ task = <<>>
  /\ seqIdx = 0
  /\ mergeIdx = 0
  /\ mergeRet = <<>>
  /\ ds = NewDataSet(-1)
  /\ addLog = <<>>
  /\ trained = 0

\* The state at line 284: a model is there (trained or loaded), fun is as
\* constructed at line 218.
EvalInit ==
  /\ IngestIdle
  /\ find_optimal_num_trees \in BOOLEAN
  /\ model \in Models
  /\ epc = "testStart"
  /\ tfileIdx = 0
  /\ tstreams = <<>>
  /\ rowInit = FALSE
  /\ target = 0
  /\ score = 0
  /\ fvec = <<0>>
  /\ scores = <<>>
  /\ agreeCount = 0
  /\ sumy = 0
  /\ sumy2 = 0
  /\ fun = NewFun
  /\ funs = <<>>
  /\ evalLog = <<>>
  /\ report = <<>>

\* if (FLAGS_testing_files != "") with the flag empty: nothing is evaluated.
NoTesting ==
  /\ epc = "testStart"
  /\ epc' = "evalDone"
  /\ UNCHANGED <<find_optimal_num_trees, model, tfileIdx, tstreams, rowInit, target,
                 score, fvec, scores, agreeCount, sumy, sumy2, fun, funs, evalLog,
                 report>>
  /\ UNCHANGED ingestVars

\* Lines 287-294: the locals of the testing branch.
TestBegin ==
  /\ epc = "testStart"
  /\ agreeCount' = 0
  /\ sumy' = 0
  /\ sumy2' = 0
  /\ funs' = [i \in 1..Len(model) |-> NewFun]
  /\ epc' = "nextTestFile"
  /\ UNCHANGED <<find_optimal_num_trees, model, tfileIdx, tstreams, rowInit, target,
                 score, fvec, scores, fun, evalLog, report>>
  /\ UNCHANGED ingestVars

\* Opening a test file with a fresh primary accumulator, as if fun were a
\* local of the loop body.
TestOpenFreshFun ==
  /\ epc = "nextTestFile"
  /\ tfileIdx < MaxTestFiles
  /\ tfileIdx' = tfileIdx + 1
  /\ tstreams' = Append(tstreams, <<>>)
  /\ scores' = <<>>
  /\ fun' = NewFun
  /\ epc' = "readTest"
  /\ UNCHANGED <<find_optimal_num_trees, model, rowInit, target, score, fvec,
                 agreeCount, sumy, sumy2, funs, evalLog, report>>
  /\ UNCHANGED ingestVars

\* for (const auto& s : tsv): open the next test file; scores is a local of
\* the loop body.
TestOpen ==
  /\ epc = "nextTestFile"
  /\ tfileIdx < MaxTestFiles
  /\ tfileIdx' = tfileIdx + 1
  /\ tstreams' = Append(tstreams, <<>>)
  /\ scores' = <<>>
  /\ epc' = "readTest"
  /\ UNCHANGED <<find_optimal_num_trees, model, rowInit, target, score, fvec,
                 agreeCount, sumy, sumy2, fun, funs, evalLog, report>>
  /\ UNCHANGED ingestVars

\* The prefix loop handing the score of the whole model to every accumulator.
PrefixAccumulateLast(fs, y, sc) ==
  [i \in 1..Len(fs) |-> accumulateExampleLoss(fs[i], y, sc[Len(sc)])]

\* Lines 315-317: every prefix accumulator gets the score of its prefix.
PrefixAccumulate(fs, y, sc) ==
  [i \in 1..Len(fs) |-> accumulateExampleLoss(fs[i], y, sc[i])]

\* The comparison with a strict bound: a difference of exactly the tolerance
\* does not count.
AgreeStrict(sco, f) == Abs(sco - f) < Tol

\* if (fabs(score - f) <= 1e-5) agreeCount++;
Agree(sco, f) == Abs(sco - f) <= Tol

\* The iteration with the whole-model score accumulated into fun a second time
\* when the prefix scores are computed.
TestLineStepTwice(line, left) ==
  LET r == getRow(line)
      row == IF r.ok THEN [target |-> r.target, fvec |-> r.fvec, score |-> r.score]
             ELSE left
      pv == predict_vec(model, row.fvec, scores)
      f == IF find_optimal_num_trees THEN pv.f ELSE predict(model, row.fvec)
      once == accumulateExampleLoss(fun, row.target, f)
  IN /\ tstreams' = [tstreams EXCEPT ![tfileIdx] = Append(@, line)]
     /\ rowInit' = (rowInit \/ r.ok)
     /\ target' = row.target
     /\ fvec' = row.fvec
     /\ score' = row.score
     /\ sumy' = sumy + row.target
     /\ sumy2' = sumy2 + row.target * row.target
     /\ funs' = IF find_optimal_num_trees
                  THEN PrefixAccumulate(funs, row.target, pv.scores)
                  ELSE funs
     /\ scores' = <<>>
     /\ fun' = IF find_optimal_num_trees
                 THEN accumulateExampleLoss(once, row.target, f)
                 ELSE once
     /\ agreeCount' = IF Agree(row.score, f) THEN agreeCount + 1 ELSE agreeCount
     /\ evalLog' = Append(evalLog, [ok |-> r.ok, target |-> row.target,
                                    fvec |-> row.fvec, score |-> row.score, f |-> f])

\* One iteration of while (getline(*is, line)), lines 308-335. The result of
\* getRow is not looked at: after a rejected line target, fvec and score hold
\* what they held before, or values getRow half wrote (left), never the row.
TestLineStep(line, left) ==
  LET r == getRow(line)
      row == IF r.ok THEN [target |-> r.target, fvec |-> r.fvec, score |-> r.score]
             ELSE left
      pv == predict_vec(model, row.fvec, scores)
      f == IF find_optimal_num_trees THEN pv.f ELSE predict(model, row.fvec)
  IN /\ tstreams' = [tstreams EXCEPT ![tfileIdx] = Append(@, line)]
     /\ rowInit' = (rowInit \/ r.ok)
     /\ target' = row.target
     /\ fvec' = row.fvec
     /\ score' = row.score
     /\ sumy' = sumy + row.target
     /\ sumy2' = sumy2 + row.target * row.target
     /\ funs' = IF find_optimal_num_trees
                  THEN PrefixAccumulate(funs, row.target, pv.scores)
                  ELSE funs
     /\ scores' = <<>>
     /\ fun' = accumulateExampleLoss(fun, row.target, f)
     /\ agreeCount' = IF Agree(row.score, f) THEN agreeCount + 1 ELSE agreeCount
     /\ evalLog' = Append(evalLog, [ok |-> r.ok, target |-> row.target,
                                    fvec |-> row.fvec, score |-> row.score, f |-> f])

\* What the three locals may hold after a rejected getRow.
LeftBehind ==
  GarbageRows \cup
    (IF rowInit THEN {[target |-> target, fvec |-> fvec, score |-> score]} ELSE {})

TestLine ==
  /\ epc = "readTest"
  /\ SumLen(tstreams) < MaxTestLines
  /\ \E line \in TestLines : \E left \in LeftBehind : TestLineStep(line, left)
  /\ UNCHANGED <<find_optimal_num_trees, model, epc, tfileIdx, report>>
  /\ UNCHANGED ingestVars

\* getline fails: the test file is exhausted.
TestEOF ==
  /\ epc = "readTest"
  /\ epc' = "nextTestFile"
  /\ UNCHANGED <<find_optimal_num_trees, model, tfileIdx, tstreams, rowInit, target,
                 score, fvec, scores, agreeCount, sumy, sumy2, fun, funs, evalLog,
                 report>>
  /\ UNCHANGED ingestVars

\* Lines 338-354: the prefix losses, the average loss and the totals.
Report ==
  /\ epc = "nextTestFile"
  /\ tfileIdx >= 1
  /\ report' = <<[curve |-> IF find_optimal_num_trees
                              THEN [i \in 1..Len(model) |-> getLoss(funs[i])]
                              ELSE <<>>,
                  avgLossNum |-> getLoss(fun),
                  avgLossDen |-> getNumExamples(fun),
                  numExamples |-> getNumExamples(fun),
                  loss |-> getLoss(fun),
                  sumy |-> sumy,
                  sumy2 |-> sumy2,
                  agreeCount |-> agreeCount]>>
  /\ epc' = "evalDone"
  /\ UNCHANGED <<find_optimal_num_trees, model, tfileIdx, tstreams, rowInit, target,
                 score, fvec, scores, agreeCount, sumy, sumy2, fun, funs, evalLog>>
  /\ UNCHANGED ingestVars

EvalNext ==
  \/ NoTesting
  \/ TestBegin
  \/ TestOpen
  \/ TestLine
  \/ TestEOF
  \/ Report

EvalSpec == EvalInit /\ [][EvalNext]_vars

\* ------------------------------------------------------------ reference definitions

NonEmpty(stream) == SelectSeq(stream, LAMBDA l : l # "")

RECURSIVE ConcatLines(_)
ConcatLines(cs) == IF cs = <<>> THEN <<>> ELSE Head(cs).lines \o ConcatLines(Tail(cs))

CeilDiv(a, b) == (a + b - 1) \div b

Min(a, b) == IF a < b THEN a ELSE b

Last(q) == q[Len(q)]

\* The main thread is inside or behind the parse phase of readIntoDataChunks
\* for the current file: its chunk list is complete.
Sealed == pc \in {"submit", "wait", "seqParse", "merge"}

\* The parse phase took the thread pool.
ParallelPath == num_threads > 0 /\ chunks # <<>>

\* DataChunk::parseLines as one call, from line i on.
RECURSIVE parseLinesFrom(_, _)
parseLinesFrom(ch, i) ==
  IF i > Len(ch.lines) THEN ch
  ELSE IF getRow(ch.lines[i]).ok
    THEN parseLinesFrom(parseFvec(parseTarget(ch, i), i), i + 1)
    ELSE parseLinesFrom(parseTarget(ch, i), i + 1)

parseLines(ch) == parseLinesFrom(ch, 1)

\* The rows a parsed chunk holds.
ChunkRows(ch) ==
  [q \in 1..Len(ch.featureVectors) |-> [fvec |-> ch.featureVectors[q], target |-> ch.targets[q]]]

\* The read loop of readIntoDataChunks run to the end of a stream: the list
\* of sealed chunks.
RECURSIVE ReadChunks(_, _, _, _)
ReadChunks(stream, size, cur, sealed) ==
  IF stream = <<>>
    THEN IF getLineBufferSize(cur) > 0 THEN Append(sealed, cur) ELSE sealed
    ELSE LET r == addLine(cur, Head(stream))
         IN IF getLineBufferSize(r.chunk) >= size
              THEN ReadChunks(Tail(stream), size, NewChunk("monitor"), Append(sealed, r.chunk))
              ELSE ReadChunks(Tail(stream), size, r.chunk, sealed)

\* The sequential path: parse the chunks of a stream in list order on the
\* calling thread, then add them to the data set in list order.
RECURSIVE SeqMerge(_, _)
SeqMerge(cs, d) ==
  IF cs = <<>> THEN d
  ELSE SeqMerge(Tail(cs), addToDataSet(parseLines(Head(cs)), d).ds)

RECURSIVE SeqLoad(_, _, _)
SeqLoad(ss, size, d) ==
  IF ss = <<>> THEN d
  ELSE SeqLoad(Tail(ss), size,
               SeqMerge(ReadChunks(Head(ss), size, NewChunk("monitor"), <<>>), d))

\* ------------------------------------------------------------ claims

\* C3: for a stream with L non-empty lines and chunkSize >= 1, readIntoDataChunks
\* produces ceil(L / chunkSize) chunks; every chunk but the last buffers exactly
\* chunkSize lines, the last between 1 and chunkSize, none is empty; the chunks
\* are determined by the non-empty lines alone, so empty lines change nothing.
C3_ChunkingBoundary ==
  /\ pc = "read" =>
       /\ \A c \in 1..Len(chunks) : getLineBufferSize(chunks[c]) = chunkSize
       /\ getLineBufferSize(curChunk) < chunkSize
  /\ Sealed =>
       LET ne == NonEmpty(streams[fileIdx])
           L == Len(ne)
       IN /\ Len(chunks) = CeilDiv(L, chunkSize)
          /\ \A c \in 1..Len(chunks) :
               /\ getLineBufferSize(chunks[c]) >= 1
               /\ getLineBufferSize(chunks[c]) <= chunkSize
               /\ c < Len(chunks) => getLineBufferSize(chunks[c]) = chunkSize
               /\ chunks[c].lines =
                    SubSeq(ne, (c - 1) * chunkSize + 1, Min(c * chunkSize, L))

\* A full chunk followed by a partly filled last one.
C3_Witness ==
  /\ Sealed
  /\ chunkSize = 2
  /\ Len(chunks) = 2
  /\ getLineBufferSize(chunks[1]) = 2
  /\ getLineBufferSize(chunks[2]) = 1

\* C4: the lines buffered in the chunks, concatenated in list order, are the
\* non-empty lines of the stream in their order, while reading, and on either
\* parse path until the chunks are merged: nothing is lost, repeated or moved.
C4_OrderPreserved ==
  /\ pc = "read" =>
       ConcatLines(chunks) \o curChunk.lines = NonEmpty(streams[fileIdx])
  /\ Sealed => ConcatLines(chunks) = NonEmpty(streams[fileIdx])

\* Two chunks with different lines, parsed by two pool threads, from a stream
\* with an empty line in it, ready to be merged.
C4_Witness ==
  /\ pc = "merge"
  /\ num_threads = 2
  /\ Len(chunks) = 2
  /\ chunks[1].lines # chunks[2].lines
  /\ "" \in Range(streams[fileIdx])
  /\ \A c \in 1..Len(chunks) : task[c].st = "done"

\* C8: addLine("") returns false and leaves the buffered lines as they are;
\* addLine(s) with s non-empty returns true and appends s as the last buffered
\* line, one line more than before.
C8_AddLine ==
  [][(pc = "read" /\ pc' = "read") =>
       LET line == Last(streams'[fileIdx])
           after == IF Len(chunks') > Len(chunks) THEN Last(chunks').lines
                    ELSE curChunk'.lines
       IN IF line = ""
            THEN addLineRet' = FALSE /\ curChunk' = curChunk /\ chunks' = chunks
            ELSE /\ addLineRet' = TRUE
                 /\ after = Append(curChunk.lines, line)
                 /\ Len(after) = Len(curChunk.lines) + 1]_vars

\* An empty line was offered to a chunk that holds a line already and was refused.
C8_Witness ==
  /\ pc = "read"
  /\ streams[fileIdx] # <<>>
  /\ Last(streams[fileIdx]) = ""
  /\ addLineRet = FALSE
  /\ getLineBufferSize(curChunk) = 1

\* C1: once a training file is merged, the rows of the data set are those the
\* sequential path (read, parse in list order on the calling thread, merge in
\* list order) gives for the same streams, chunk size and example limit, with
\* any number of pool threads and any interleaving of the parse tasks.
C1_Determinism ==
  pc \in {"nextFile", "train", "done"} =>
    ds.rows = SeqLoad(streams, chunkSize, NewDataSet(ds.limit)).rows

\* Two chunks parsed by two pool threads have been merged: two different rows.
C1_Witness ==
  /\ pc = "nextFile"
  /\ num_threads = 2
  /\ Len(chunks) = 2
  /\ monitor.decs = 2
  /\ Len(ds.rows) = 2
  /\ ds.rows[1] # ds.rows[2]

\* C2: on the parallel path the monitor is initialised to the number of chunks
\* n, and wait(), hence readIntoDataChunks and every addToDataSet call, does not
\* return or start before all n tasks have finished parseLines and decremented;
\* addVector is never called while a parse task is queued or running.
C2_LatchBarrier ==
  /\ pc \in {"submit", "wait"} =>
       /\ monitor.inits = 1
       /\ monitor.count + monitor.decs = Len(chunks)
  /\ (pc = "merge" /\ ParallelPath) =>
       /\ queue = <<>>
       /\ monitor.decs = Len(chunks)
       /\ \A c \in 1..Len(chunks) :
            /\ task[c].st = "done"
            /\ task[c].i > Len(chunks[c].lines)
  /\ \A k \in 1..Len(addLog) : ~addLog[k].busy

\* wait() has returned after two tasks on two pool threads, the first chunk
\* is merged.
C2_Witness ==
  /\ pc = "merge"
  /\ mergeIdx = 2
  /\ num_threads = 2
  /\ Len(chunks) = 2
  /\ monitor.count = 0
  /\ monitor.decs = 2
  /\ Len(addLog) >= 1

\* C5: addToDataSet offers the parsed rows of the chunk to addVector in parsed
\* order, stops at the first refusal and returns the number accepted before it:
\* a first refusal on call j gives j - 1 after exactly j calls, no refusal gives
\* the parsed count; the rows added are a prefix of the chunk's rows and the
\* chunk is left as it was.
C5_MergeShortCircuit ==
  [][(pc = "merge" /\ mergeIdx' = mergeIdx + 1) =>
       LET ch == chunks[mergeIdx]
           ret == Last(mergeRet')
           calls == SubSeq(addLog', Len(addLog) + 1, Len(addLog'))
           k == Len(calls)
       IN /\ chunks' = chunks
          /\ Len(mergeRet') = Len(mergeRet) + 1
          /\ \A q \in 1..k : calls[q].row = q /\ calls[q].chunk = mergeIdx
          /\ \A q \in 1..(k - 1) : calls[q].ok
          /\ IF k > 0 /\ ~calls[k].ok
               THEN ret = k - 1
               ELSE ret = getSize(ch) /\ k = getSize(ch)
          /\ ds'.rows = ds.rows \o SubSeq(ChunkRows(ch), 1, ret)]_vars

\* A chunk with two parsed rows of which the second was refused: result 1.
C5_Witness ==
  /\ pc = "merge"
  /\ mergeIdx = 2
  /\ getSize(chunks[1]) = 2
  /\ mergeRet = <<1>>
  /\ Len(addLog) = 2
  /\ addLog[1].ok
  /\ ~addLog[2].ok

\* (file, chunk, row) of one addVector call before that of another.
CallBefore(a, b) ==
  \/ a.file < b.file
  \/ a.file = b.file /\ a.chunk < b.chunk
  \/ a.file = b.file /\ a.chunk = b.chunk /\ a.row < b.row

\* C6: the addVector calls come in increasing order of (file, chunk, row); the
\* data set changes only in a step of the merge loop of the main thread (or its
\* close), never in a step of a pool thread, and only while no parse task is
\* queued or running.
C6_SequentialMerge ==
  /\ [](\A k \in 1..(Len(addLog) - 1) : CallBefore(addLog[k], addLog[k + 1]))
  /\ [][ds' # ds =>
          /\ InFlight = {}
          /\ \/ pc = "merge" /\ pc' = "merge" /\ mergeIdx' = mergeIdx + 1
             \/ pc = "nextFile" /\ pc' = "train"]_vars

\* Calls for two chunks of the first file and for a chunk of the second, the
\* chunks parsed by pool threads.
C6_Witness ==
  /\ num_threads = 2
  /\ Len(addLog) = 3
  /\ addLog[1].file = 1 /\ addLog[1].chunk = 1
  /\ addLog[2].file = 1 /\ addLog[2].chunk = 2
  /\ addLog[3].file = 2

\* Every chunk of the current file and the chunk being filled.
AllChunks == Range(chunks) \cup {curChunk}

\* C7 as stated: in every state of a chunk, during parsing too,
\* len(featureVectors) = len(targets) and len(featureVectors) <= len(lines).
C7_LengthsAlwaysEqual ==
  \A ch \in AllChunks :
    /\ Len(ch.featureVectors) = Len(ch.targets)
    /\ Len(ch.featureVectors) <= Len(ch.lines)

\* C7 amended: the two lengths are equal except while parseLines is between
\* targets_.push_back and featureVectors_.emplace_back of an accepted row, where
\* targets is one longer; len(featureVectors) <= len(targets) <= len(lines)
\* throughout; the CHECK of addToDataSet never fails.
C7_LengthsEqualOutsideAppend ==
  /\ \A c \in 1..Len(chunks) :
       /\ Len(chunks[c].targets) =
            Len(chunks[c].featureVectors) +
              (IF task[c].st \in {"running", "inline"} /\ task[c].half = "fvec"
                 THEN 1 ELSE 0)
       /\ Len(chunks[c].targets) <= Len(chunks[c].lines)
       /\ task[c].st \in {"new", "queued"} => Len(chunks[c].targets) = 0
  /\ pc = "read" => curChunk.featureVectors = <<>> /\ curChunk.targets = <<>>
  /\ pc = "merge" => \A c \in 1..Len(chunks) : addToDataSetCheck(chunks[c])
  /\ pc # "abort"

\* A chunk that dropped a malformed line and kept a row has passed the CHECK
\* and is merged.
C7_Witness ==
  /\ pc = "merge"
  /\ mergeIdx = 2
  /\ getLineBufferSize(chunks[1]) = 2
  /\ getSize(chunks[1]) = 1
  /\ Len(chunks[1].targets) = 1
  /\ Len(addLog) = 1

\* The test lines read so far that getRow accepted, as log entries.
AcceptedLog == SelectSeq(evalLog, LAMBDA e : e.ok)

RECURSIVE SumTargets(_)
SumTargets(log) == IF log = <<>> THEN 0 ELSE Head(log).target + SumTargets(Tail(log))

RECURSIVE SumSquares(_)
SumSquares(log) ==
  IF log = <<>> THEN 0 ELSE Head(log).target * Head(log).target + SumSquares(Tail(log))

RECURSIVE CountAgree(_)
CountAgree(log) ==
  IF log = <<>> THEN 0
  ELSE (IF Abs(Head(log).score - Head(log).f) <= Tol THEN 1 ELSE 0) + CountAgree(Tail(log))

\* C9: a test line the row parser rejects is dropped by the evaluator: it adds
\* nothing to sumy, sumy2, the accumulators or the agreement count, and the
\* example count is the number of lines the parser accepted.
C9_MalformedTestRowsDropped ==
  /\ getNumExamples(fun) = Len(AcceptedLog)
  /\ sumy = SumTargets(AcceptedLog)
  /\ sumy2 = SumSquares(AcceptedLog)
  /\ agreeCount = CountAgree(AcceptedLog)
  /\ \A k \in 1..Len(funs) : getNumExamples(funs[k]) \in {0, Len(AcceptedLog)}

\* The loss of a model over the rows of a log, each row predicted on its own.
RECURSIVE RefLoss(_, _)
RefLoss(m, log) ==
  IF log = <<>> THEN 0
  ELSE LET d == Head(log).target - predict(m, Head(log).fvec)
       IN d * d + RefLoss(m, Tail(log))

\* C10: with find_optimal_num_trees, after any test rows over all test files
\* the loss of prefix accumulator k is the loss of the model cut to its first k
\* trees, evaluated on its own over the same rows, for every k in 1..N; the
\* accumulator of prefix N agrees with the accumulator of the whole model.
C10_PrefixLoss ==
  (find_optimal_num_trees /\ epc \in {"nextTestFile", "readTest", "evalDone"}
     /\ tfileIdx >= 1) =>
    /\ Len(funs) = Len(model)
    /\ \A k \in 1..Len(model) :
         getLoss(funs[k]) = RefLoss(SubSeq(model, 1, k), evalLog)
    /\ Len(model) >= 1 => getLoss(funs[Len(model)]) = getLoss(fun)
    /\ report # <<>> =>
         report[1].curve = [k \in 1..Len(model) |-> RefLoss(SubSeq(model, 1, k), evalLog)]

\* Two different trees, rows from two test files, and a loss curve that is
\* not flat.
C10_Witness ==
  /\ find_optimal_num_trees
  /\ Len(model) = 2
  /\ model[1] # model[2]
  /\ tfileIdx = 2
  /\ Len(tstreams[1]) >= 1
  /\ Len(tstreams[2]) >= 1
  /\ getLoss(funs[1]) # getLoss(funs[2])
  /\ getLoss(funs[2]) > 0


\* All test lines read so far, over all test files, in the order read.
RECURSIVE Flatten(_)
Flatten(ss) == IF ss = <<>> THEN <<>> ELSE Head(ss) \o Flatten(Tail(ss))

\* The rows within the tolerance of the prediction of the whole model m, each
\* row predicted on its own.
RECURSIVE CountWithin(_, _)
CountWithin(m, log) ==
  IF log = <<>> THEN 0
  ELSE (IF Abs(Head(log).score - predict(m, Head(log).fvec)) <= Tol THEN 1 ELSE 0)
         + CountWithin(m, Tail(log))

\* C11: the agreement counter is the number of rows evaluated whose logged
\* score is within 1e-5 of the prediction of the whole model for that row, a
\* difference of exactly 1e-5 included; so it lies between 0 and the number of
\* rows, is the number of rows when every logged score is the prediction, and
\* one row's score moved from the prediction by more than 1e-5 lowers it by
\* exactly one. For an accepted line the score compared is the one on the line.
C11_AgreementCount ==
  /\ agreeCount = CountWithin(model, evalLog)
  /\ 0 <= agreeCount /\ agreeCount <= Len(evalLog)
  /\ Len(evalLog) = Len(Flatten(tstreams))
  /\ \A k \in 1..Len(evalLog) :
       /\ evalLog[k].f = predict(model, evalLog[k].fvec)
       /\ evalLog[k].ok =>
            /\ evalLog[k].score = getRow(Flatten(tstreams)[k]).score
            /\ evalLog[k].fvec = getRow(Flatten(tstreams)[k]).fvec
  /\ (\A k \in 1..Len(evalLog) : evalLog[k].score = evalLog[k].f) =>
       agreeCount = Len(evalLog)
  /\ \A k \in 1..Len(evalLog) : \A d \in {0 - 2 * Tol, 2 * Tol} :
       evalLog[k].score = evalLog[k].f =>
         CountWithin(model, [evalLog EXCEPT ![k].score = @ + d]) = agreeCount - 1
  /\ report # <<>> => report[1].agreeCount = agreeCount

\* Three accepted rows: two at exactly the tolerance, which count, and one
\* beyond it, which does not.
C11_Witness ==
  /\ Len(evalLog) = 3
  /\ agreeCount = 2
  /\ \A k \in 1..3 : evalLog[k].ok
  /\ \E j, k \in 1..3 :
       /\ Abs(evalLog[j].score - evalLog[j].f) = Tol
       /\ Abs(evalLog[k].score - evalLog[k].f) > Tol

\* C12: every row evaluated is accumulated into the primary accumulator
\* exactly once, with and without find_optimal_num_trees, and with it into
\* every prefix accumulator exactly once: the count of fun is the number of
\* rows, so is the count of every funs[k], without the mode funs is never
\* touched, and the average loss reported is getLoss over getNumExamples.
C12_OneAccumulationPerRow ==
  /\ getNumExamples(fun) = Len(evalLog)
  /\ Len(evalLog) = SumLen(tstreams)
  /\ (epc \in {"nextTestFile", "readTest"} \/ report # <<>>) =>
       /\ Len(funs) = Len(model)
       /\ \A k \in 1..Len(funs) :
            getNumExamples(funs[k]) = IF find_optimal_num_trees THEN Len(evalLog) ELSE 0
  /\ report # <<>> =>
       /\ report[1].avgLossNum = getLoss(fun)
       /\ report[1].avgLossDen = Len(evalLog)
       /\ report[1].numExamples = Len(evalLog)
       /\ report[1].loss = RefLoss(model, evalLog)

\* Three rows with find_optimal_num_trees and two trees, reported.
C12_Witness ==
  /\ find_optimal_num_trees
  /\ Len(model) = 2
  /\ Len(evalLog) = 3
  /\ report # <<>>
  /\ report[1].avgLossDen = 3
  /\ report[1].avgLossNum > 0
  /\ getNumExamples(funs[1]) = 3

\* The evaluator is about to read the first line of a test file.
AtTestFileStart == epc = "readTest" /\ tstreams[tfileIdx] = <<>>

\* C13 as stated: when a test file is started the primary accumulator holds
\* no accumulation.
C13_PrimaryPerTestFile == AtTestFileStart => getNumExamples(fun) = 0

\* C13: fun is one accumulator for the whole run, like the prefix
\* accumulators: when a test file is started fun holds the accumulations of
\* all rows of the earlier test files, none for the first, and with
\* find_optimal_num_trees every prefix accumulator holds as many.
C13_AccumulatorsShared ==
  AtTestFileStart =>
    /\ getNumExamples(fun) = SumLen(SubSeq(tstreams, 1, tfileIdx - 1))
    /\ getLoss(fun) = RefLoss(model, evalLog)
    /\ tfileIdx = 1 => fun = NewFun
    /\ \A k \in 1..Len(funs) :
         getNumExamples(funs[k]) =
           IF find_optimal_num_trees THEN getNumExamples(fun) ELSE 0

\* The second test file is started after a first one with two rows.
C13_Witness ==
  /\ AtTestFileStart
  /\ tfileIdx = 2
  /\ Len(tstreams[1]) = 2
  /\ getNumExamples(fun) = 2
  /\ find_optimal_num_trees
  /\ Len(funs) >= 1
  /\ getNumExamples(funs[1]) = 2


\* C14: when training, ds.close() is called exactly once, after every
\* addVector call of every chunk of every training file and before the model
\* is trained; no addVector call follows a close; with eval_only neither
\* addVector nor close is called, and nothing is trained.
C14_DataSetLifecycle ==
  /\ ds.closes <= 1
  /\ ds.closed = (ds.closes = 1)
  /\ ds.calls = Len(addLog)
  /\ ds.closed => (ds.calls = ds.callsAtClose /\ pc \in {"train", "done"})
  /\ pc \in {"train", "done"} /\ ~eval_only => ds.closed
  /\ trained <= 1
  /\ trained = 1 => (ds.closed /\ pc = "done" /\ ~eval_only)
  /\ pc = "done" /\ ~eval_only => trained = 1
  /\ eval_only => (ds = NewDataSet(ds.limit) /\ addLog = <<>> /\ trained = 0 /\ fileIdx = 0)

\* Trained after two files that both reached the dataset, one close.
C14_Witness ==
  /\ pc = "done"
  /\ ~eval_only
  /\ trained = 1
  /\ fileIdx = 2
  /\ ds.closes = 1
  /\ ds.callsAtClose >= 2
  /\ \E j, k \in 1..Len(addLog) : addLog[j].file = 1 /\ addLog[k].file = 2


\* A chunk as it was sealed, before any parseLines.
Unparsed(ch) == [ch EXCEPT !.featureVectors = <<>>, !.targets = <<>>]

\* C15: when readIntoDataChunks returns, parseLines has run exactly once on
\* every chunk of the list: on the parallel path in one pool task per chunk, on
\* the sequential path on the main thread, chunk after chunk in list order;
\* no chunk is ever parsed twice, and every chunk holds what one parseLines
\* call on its lines produces, no row missing and none twice.
C15_ParsedExactlyOnce ==
  /\ Sealed => Len(task) = Len(chunks)
  /\ \A c \in 1..Len(task) : task[c].runs <= 1
  /\ \A c \in 1..Len(task) : task[c].runs = 0 <=> task[c].st \in {"new", "queued"}
  /\ pc = "merge" =>
       \A c \in 1..Len(chunks) :
         /\ task[c].runs = 1
         /\ task[c].st = "done"
         /\ chunks[c] = parseLines(Unparsed(chunks[c]))
  /\ (Sealed /\ ParallelPath) => \A c \in 1..Len(chunks) : task[c].st # "inline"
  /\ pc = "seqParse" =>
       \A c \in 1..Len(chunks) :
         /\ c < seqIdx => task[c].st = "done"
         /\ c = seqIdx => task[c].st \in {"new", "inline"}
         /\ c > seqIdx => task[c].st = "new"

\* readIntoDataChunks has just returned on the parallel path: two chunks, each
\* parsed by one pool task, nothing merged yet.
C15_Witness ==
  /\ pc = "merge"
  /\ mergeIdx = 1
  /\ ParallelPath
  /\ Len(chunks) = 2
  /\ \A c \in 1..2 : task[c].runs = 1 /\ task[c].st = "done"
  /\ getSize(chunks[1]) >= 1
  /\ getSize(chunks[2]) >= 1

\* The rows the row parser gives for the lines it accepts, in line order.
AcceptedRows(lines) ==
  LET acc == SelectSeq(lines, LAMBDA l : getRow(l).ok)
  IN [q \in 1..Len(acc) |-> [fvec |-> getRow(acc[q]).fvec, target |-> getRow(acc[q]).target]]

\* C16: after parseLines the rows of a chunk are the row parser's outputs for
\* the buffered lines it accepts, in buffered order; a rejected line gives no
\* entry, does not stop the loop and leaves the entries of the other lines as
\* they are; the buffered lines are what they were when the chunk was sealed.
C16_ParseResult ==
  /\ \A c \in 1..Len(task) :
       task[c].st \in {"parsed", "done"} =>
         /\ c <= Len(chunks)
         /\ ChunkRows(chunks[c]) = AcceptedRows(chunks[c].lines)
         /\ Len(chunks[c].targets) = Len(chunks[c].featureVectors)
         /\ task[c].i = Len(chunks[c].lines) + 1
  /\ pc = "merge" => ConcatLines(chunks) = NonEmpty(streams[fileIdx])
  /\ pc # "abort"

\* A chunk of two lines, the first rejected and the second accepted, parsed:
\* one row.
C16_Witness ==
  /\ pc = "merge"
  /\ chunks # <<>>
  /\ chunks[1].lines = <<"x", "b">>
  /\ task[1].st = "done"
  /\ ChunkRows(chunks[1]) = <<[fvec |-> <<20>>, target |-> 2]>>

\* C17: within one readIntoDataChunks call the count of the monitor is never
\* negative; init is called at most once, only on the parallel path, after
\* the chunk list is complete and before any task is submitted, so every
\* decrement comes after it; there is one decrement per chunk whose task has
\* finished, n in all, and the count is 0 when wait() has returned.
C17_LatchDiscipline ==
  /\ monitor.count >= 0
  /\ monitor.inits <= 1
  /\ monitor.waits <= monitor.inits
  /\ (monitor.inits = 1 /\ pc \notin {"nextFile", "train", "done"}) =>
       (Sealed /\ ParallelPath)
  /\ pc = "read" =>
       /\ monitor = NewMonitor
       /\ queue = <<>>
       /\ \A c \in 1..Len(task) : task[c] = NewTask
  /\ (queue # <<>> \/ InFlight # {} \/ monitor.decs > 0) => monitor.inits = 1
  /\ monitor.inits = 1 =>
       /\ monitor.decs = Cardinality({c \in 1..Len(task) : task[c].st = "done"})
       /\ monitor.count = Len(chunks) - monitor.decs
  /\ (pc = "merge" /\ ParallelPath) =>
       /\ monitor.count = 0
       /\ monitor.decs = Len(chunks)
       /\ monitor.waits = 1

\* wait() has returned after three tasks.
C17_Witness ==
  /\ pc = "merge"
  /\ ParallelPath
  /\ Len(chunks) = 3
  /\ monitor.inits = 1
  /\ monitor.decs = 3
  /\ monitor.count = 0


\* C18: under fair scheduling every readIntoDataChunks call that takes the
\* parallel path returns: after init(n) the n tasks are run in whatever order
\* and interleaving, each decrements once, and wait() returns, also when the
\* last decrement comes before wait() is entered.
C18_IngestionTerminates == (pc = "submit") ~> (pc = "merge")

\* wait() has returned after one pool thread ran two tasks.
C18_Witness ==
  /\ pc = "merge"
  /\ mergeIdx = 1
  /\ num_threads = 1
  /\ Len(chunks) = 2
  /\ monitor.waits = 1
  /\ monitor.count = 0


\* C19: with num_threads 0, or with no chunk (an empty stream or only empty
\* lines), readIntoDataChunks takes the sequential branch: nothing is added
\* to the thread manager, init, wait and decrement are never called and the
\* count stays 0, although every chunk holds the address of the monitor; the
\* chunks are parsed on the main thread, which never waits.
C19_SequentialPathNoLatch ==
  /\ pc = "seqParse" <=> (Sealed /\ ~ParallelPath /\ pc # "merge")
  /\ (Sealed /\ ~ParallelPath) =>
       /\ monitor = NewMonitor
       /\ queue = <<>>
       /\ InFlight = {}
       /\ \A c \in 1..Len(chunks) :
            /\ chunks[c].monitorPtr = "monitor"
            /\ task[c].st \in {"new", "inline", "done"}
       /\ pc = "merge" => \A c \in 1..Len(chunks) : task[c].st = "done" /\ task[c].runs = 1

\* Two chunks parsed on the main thread, no pool thread configured.
C19_Witness ==
  /\ num_threads = 0
  /\ pc = "merge"
  /\ Len(chunks) = 2
  /\ \A c \in 1..2 : task[c].st = "done" /\ getSize(chunks[c]) = 1
  /\ monitor.count = 0

\* The parsed rows of the chunks cs, in chunk order.
RECURSIVE RowsOf(_)
RowsOf(cs) == IF cs = <<>> THEN <<>> ELSE ChunkRows(Head(cs)) \o RowsOf(Tail(cs))

\* The rows the row parser accepts in the streams ss, in stream order.
RECURSIVE StreamRows(_)
StreamRows(ss) ==
  IF ss = <<>> THEN <<>> ELSE AcceptedRows(Head(ss)) \o StreamRows(Tail(ss))

\* The parsed rows of all chunks handed to addToDataSet so far, in
\* (file, chunk, row) order.
OfferedRows ==
  StreamRows(SubSeq(streams, 1, fileIdx - 1)) \o
    (IF pc = "merge" THEN RowsOf(SubSeq(chunks, 1, mergeIdx - 1))
     ELSE AcceptedRows(streams[fileIdx]))

\* The addVector calls made for chunk c of file f.
CallsOf(f, c) == SelectSeq(addLog, LAMBDA e : e.file = f /\ e.chunk = c)

\* C20: main drops the value addToDataSet returns and calls it on every chunk
\* of every training file, also after a chunk was added only in part. With a
\* data set whose refusal is permanent, the rows it holds are a prefix of all
\* parsed rows handed over so far in (file, chunk, row) order, cut where the
\* example limit is reached; every call after the first refusal is refused,
\* and a chunk after the refusal adds no row and makes exactly one addVector
\* call, none if it has no parsed row.
C20_CapacityExhaustion ==
  (pc \in {"merge", "nextFile", "train", "done"} /\ fileIdx >= 1) =>
    /\ pc = "merge" => Len(mergeRet) = mergeIdx - 1
    /\ pc # "merge" => Len(mergeRet) = Len(chunks)
    /\ ds.rows = SubSeq(OfferedRows, 1,
                        IF ds.limit = -1 THEN Len(OfferedRows)
                        ELSE Min(ds.limit, Len(OfferedRows)))
    /\ \A j, k \in 1..Len(addLog) :
         (j < k /\ ~addLog[j].ok) =>
           /\ ~addLog[k].ok
           /\ addLog[k].row = 1
           /\ addLog[k].file # addLog[j].file \/ addLog[k].chunk # addLog[j].chunk
    /\ \A c \in 1..Len(mergeRet) :
         (\E j \in 1..Len(addLog) :
            /\ ~addLog[j].ok
            /\ addLog[j].file < fileIdx \/ (addLog[j].file = fileIdx /\ addLog[j].chunk < c)) =>
           /\ mergeRet[c] = 0
           /\ CallsOf(fileIdx, c) =
                IF getSize(chunks[c]) > 0
                  THEN <<[file |-> fileIdx, chunk |-> c, row |-> 1, ok |-> FALSE,
                          busy |-> FALSE]>>
                  ELSE <<>>

\* The limit of one row is reached in the first chunk of the first file; the
\* second chunk and the chunk of the second file are each refused once.
C20_Witness ==
  /\ pc = "merge"
  /\ fileIdx = 2
  /\ mergeIdx = 2
  /\ mergeRet = <<0>>
  /\ getSize(chunks[1]) >= 1
  /\ Len(ds.rows) = 1
  /\ Len(addLog) = 3
  /\ addLog[1].ok /\ ~addLog[2].ok /\ ~addLog[3].ok
  /\ addLog[2].file = 1 /\ addLog[2].chunk = 2

====
